---- MODULE Spec2Model ----
(***************************************************************************)
(* Model of the terminal interaction engine of beeminder_client            *)
(* (src/src/beeminder_client/beeminder_cli.py): the run loop of            *)
(* BeeminderCLI, the modal prompt InputWindow.get_input and the datapoint  *)
(* entry workflow BeeminderCLI.create_datapoint.                           *)
(*                                                                         *)
(* One step of the model is one blocking event of the program: a key       *)
(* returned by getch (in the run loop or inside a prompt) together with    *)
(* the whole handler that follows it, or the answer of the remote service  *)
(* to a create-datapoint request.  Keys are the integer codes curses       *)
(* delivers; slugs are small integers; text buffers are sequences of key   *)
(* codes.                                                                  *)
(***************************************************************************)
EXTENDS Integers, Sequences, FiniteSets, TLC

(***************************************************************************)
(* Bounds of the model.                                                    *)
(***************************************************************************)
MaxGoals == 3
MaxHeight == 7
MaxLen == 2
MaxDetailOffset == 2
MaxDetailScroll == 24
MaxTextLen == 4
MaxWidth == 4

(***************************************************************************)
(* Key codes (curses / ASCII).                                             *)
(***************************************************************************)
KEY_DOWN == 258
KEY_UP == 259
KEY_BACKSPACE == 263
KEY_RESIZE == 410
ESCAPE == 27
ENTER == 10
DEL == 127
OrdQ == 113
OrdW == 119
OrdR == 114
OrdC == 99
OrdI == 105
OrdB == 98
OrdX == 120
OrdDot == 46
OrdFive == 53
OrdMinus == 45
OrdTilde == 126
\* Code points next to the printable range, and a digit outside ASCII.
UnitSeparator == 31
PaddingChar == 128
SuperscriptTwo == 178

\* The smallest terminal height on which the list view can be drawn at all:
\* the separator is written on row 2.
MinHeight == 3

\* Start column of the prompt's cursor.
StartX == 4

\* len(detail_lines): the fields draw_goal_detail lists.
FieldCount == 23

\* Python's None where a goal is expected (slugs are positive).
NoGoal == 0

\* Python's None elsewhere.
None == "None"

Slugs == 1..MaxGoals
Heights == MinHeight..MaxHeight

\* The ascending sequence of the elements of a set of slugs.
SortedSeq(S) ==
    CHOOSE s \in [1..Cardinality(S) -> S] :
        \A i, j \in 1..Cardinality(S) : i < j => s[i] < s[j]

\* What api.get_all_goals can return: any collection of goals with unique
\* slugs, in the order of the data source.
Collections == { SortedSeq(S) : S \in SUBSET Slugs }

\* Keys the user can press while a prompt is open.
PromptKeys == {ESCAPE, ENTER, DEL, KEY_BACKSPACE, OrdFive, OrdDot, OrdQ,
               KEY_UP, KEY_DOWN}

\* Keys neither view binds.
OtherKeys == {OrdX, ENTER}

VARIABLES
    pc,                  \* where the program is blocked
    goals,               \* self.goals: sequence of slugs
    selected_index,      \* self.selected_index
    offset,              \* self.offset
    view_mode,           \* self.view_mode
    detail_offset,       \* self.detail_offset
    current_goal_detail, \* self.current_goal_detail: slug of the detail, or NoGoal
    height,              \* terminal height read at the top of the iteration
    input_str,           \* get_input: the buffer
    cur_x,               \* get_input: the cursor column
    value_str,           \* create_datapoint: the submitted value text
    success,             \* create_datapoint: success flag of the last prompt
    goal,                \* create_datapoint: slug of the goal argument
    request,             \* api.create_datapoint calls in flight (none or one)
    creates,             \* api.create_datapoint calls made by this workflow
    result,              \* value the last create_datapoint returned
    error,               \* exception that left run(), or None
    fetched,             \* api.get_all_goals has returned a collection
    api_key,             \* main: BEEMINDER_API_KEY is set and not empty
    username,            \* main: BEEMINDER_USERNAME is set and not empty
    printed,             \* main: the messages printed, in order
    call,                \* the display helper called last, with arguments and result
    echo,                \* curses echo mode: typed characters are echoed
    cursor               \* curses cursor visibility: 0 hidden, 1 visible

vars == <<pc, goals, selected_index, offset, view_mode, detail_offset,
          current_goal_detail, height, input_str, cur_x, value_str, success,
          goal, request, creates, result, error, fetched, api_key, username,
          printed, call, echo, cursor>>

ui == <<goals, selected_index, offset, view_mode, detail_offset,
        current_goal_detail, height, fetched>>

flow == <<input_str, cur_x, value_str, success, goal, request, creates, result>>

\* What run() and the prompts never assign: the startup inputs, the output of
\* main and the record of the display helpers.
env == <<api_key, username, printed, call>>

\* The terminal modes curses keeps.
term == <<echo, cursor>>

\* No display helper has been called: every field at a neutral value.
NoCall ==
    [fn |-> "none",
     flags |-> <<<<>>, <<>>, <<>>>>, status |-> "",
     losedate |-> <<>>, now |-> 0, zone |-> "UTC",
     time_left |-> [fmt |-> "", args |-> <<>>],
     text |-> <<>>, width |-> 0, cell |-> <<>>]

(***************************************************************************)
(* Pure helpers.                                                           *)
(***************************************************************************)

Min(a, b) == IF a < b THEN a ELSE b
Max(a, b) == IF a > b THEN a ELSE b

\* The digit test passed by every character.
IsDigit_AnyChar(char) == TRUE

\* str.isdigit() on chr(char), for the code points below 256.
IsDigit(char) == char \in 48..57 \/ char \in {178, 179, 185}

\* The printable-character test of get_input.
IsPrintable(char) == 32 <= char /\ char <= 126

IsAsciiDigit(char) == char \in 48..57

RECURSIVE CountDots(_)
CountDots(s) ==
    IF s = <<>> THEN 0
    ELSE (IF s[1] = OrdDot THEN 1 ELSE 0) + CountDots(Tail(s))

RECURSIVE CountDigits(_)
CountDigits(s) ==
    IF s = <<>> THEN 0
    ELSE (IF IsAsciiDigit(s[1]) THEN 1 ELSE 0) + CountDigits(Tail(s))

\* float(s) does not raise ValueError, for a text of printable characters
\* without blanks, exponent or sign: digits with at most one point and at
\* least one digit.
FloatParses(s) ==
    /\ \A i \in 1..Len(s) : IsAsciiDigit(s[i]) \/ s[i] = OrdDot
    /\ CountDots(s) <= 1
    /\ CountDigits(s) >= 1


(***************************************************************************)
(* The process at the start of main(), with the fields of BeeminderCLI at *)
(* the values __init__ gives them.                                         *)
(***************************************************************************)
Init ==
    /\ pc = "main"
    /\ api_key \in BOOLEAN
    /\ username \in BOOLEAN
    /\ printed = <<>>
    /\ call = NoCall
    /\ echo = TRUE
    /\ cursor = 1
    /\ goals = <<>>
    /\ selected_index = 0
    /\ offset = 0
    /\ view_mode = "list"
    /\ detail_offset = 0
    /\ current_goal_detail = NoGoal
    /\ height \in Heights
    /\ input_str = <<>>
    /\ cur_x = StartX
    /\ value_str = <<>>
    /\ success = FALSE
    /\ goal = NoGoal
    /\ request = <<>>
    /\ creates = 0
    /\ result = None
    /\ error = None
    /\ fetched = FALSE

\* main(): without the API key the message is printed and main returns;
\* without the username the message is printed and main goes on to build the
\* application and to call curses.wrapper(app.run).
main ==
    /\ pc = "main"
    /\ IF ~api_key
       THEN /\ printed' = Append(printed, "Please set BEEMINDER_API_KEY environment variable")
            /\ pc' = "exited"
            /\ UNCHANGED term
       ELSE /\ printed' = IF ~username
                          THEN Append(printed, "Please set BEEMINDER_USERNAME environment variable")
                          ELSE printed
            \* curses.wrapper(cli.run): noecho() before run is called; the
            \* cursor is as the terminal has it, visible.
            /\ echo' = FALSE
            /\ cursor' = 1
            /\ pc' = "start"
    /\ UNCHANGED <<ui, flow, error, api_key, username, call>>

(***************************************************************************)
(* The fetch collaborators.  Neither caller catches an exception, so a     *)
(* failing fetch leaves run() (and the process) with the exception.        *)
(***************************************************************************)

\* self.goals = self.api.get_all_goals(None); without a default user
\* get_all_goals raises ValueError.
fetch_goals ==
    \/ /\ username
       /\ \E c \in Collections : goals' = c
       /\ fetched' = TRUE
       /\ pc' = "loop"
       /\ error' = error
    \/ /\ goals' = goals
       /\ fetched' = fetched
       /\ pc' = "crashed"
       /\ error' = "FetchError"

\* self.current_goal_detail = self.api.get_goal(None, goal_slug, datapoints=False)
fetch_goal_detail(goal_slug) ==
    \/ /\ username
       /\ current_goal_detail' = goal_slug
       /\ pc' = "loop"
       /\ error' = error
    \/ /\ current_goal_detail' = current_goal_detail
       /\ pc' = "crashed"
       /\ error' = "FetchError"

\* run() entering the loop without the initial fetch.
RunStart_NoFetch ==
    /\ pc = "start"
    /\ pc' = "loop"
    /\ UNCHANGED <<ui, flow, error, env, term>>

\* run(), before the loop: the eager initial fetch.
RunStart ==
    /\ pc = "start"
    /\ fetch_goals
    /\ UNCHANGED <<selected_index, offset, view_mode, detail_offset,
                   current_goal_detail, height>>
    /\ UNCHANGED flow
    /\ UNCHANGED env
    /\ cursor' = 0
    /\ echo' = echo

(***************************************************************************)
(* The branches of the list view's key dispatch.                           *)
(***************************************************************************)

\* key == ord('q'): break
Quit ==
    /\ pc' = "done"
    /\ UNCHANGED <<ui, flow, error>>
    /\ UNCHANGED term

\* open_in_browser(): no state of the program changes.
open_in_browser ==
    UNCHANGED vars

\* key == ord('r'): self.fetch_goals()
Refresh ==
    /\ fetch_goals
    /\ UNCHANGED <<selected_index, offset, view_mode, detail_offset,
                   current_goal_detail, height>>
    /\ UNCHANGED flow
    /\ UNCHANGED term

\* The call create_datapoint(stdscr, g) up to its first blocking getch: a
\* fresh InputWindow and the numeric prompt opened with an empty buffer.
OpenValuePrompt(slug) ==
    /\ pc' = "value"
    /\ goal' = slug
    /\ input_str' = <<>>
    /\ cur_x' = StartX
    /\ value_str' = <<>>
    /\ success' = FALSE
    /\ request' = <<>>
    /\ creates' = 0
    /\ result' = None
    /\ error' = error
    /\ echo' = TRUE
    /\ cursor' = 1

\* key == ord('c') and self.goals: create_datapoint(stdscr, self.goals[self.selected_index])
ListCreate ==
    /\ IF selected_index < Len(goals)
       THEN OpenValuePrompt(goals[selected_index + 1])
       ELSE /\ pc' = "crashed"
            /\ error' = "IndexError"
            /\ UNCHANGED <<flow, term>>
    /\ UNCHANGED ui

\* The detail fetched for the first goal instead of the selected one.
ListShowDetail_FirstGoal ==
    /\ view_mode' = "detail"
    /\ detail_offset' = 0
    /\ fetch_goal_detail(goals[1])
    /\ UNCHANGED <<goals, selected_index, offset, height, fetched>>
    /\ UNCHANGED flow
    /\ UNCHANGED term

\* key == ord('i') and self.goals: the two assignments, then the fetch of
\* self.goals[self.selected_index].slug.
ListShowDetail ==
    /\ view_mode' = "detail"
    /\ detail_offset' = 0
    /\ IF selected_index < Len(goals)
       THEN fetch_goal_detail(goals[selected_index + 1])
       ELSE /\ pc' = "crashed"
            /\ error' = "IndexError"
            /\ current_goal_detail' = current_goal_detail
    /\ UNCHANGED <<goals, selected_index, offset, height, fetched>>
    /\ UNCHANGED flow
    /\ UNCHANGED term

\* key == curses.KEY_UP and self.selected_index > 0
ListUp ==
    /\ selected_index' = selected_index - 1
    /\ offset' = IF selected_index - 1 < offset THEN selected_index - 1 ELSE offset
    /\ UNCHANGED <<pc, goals, view_mode, detail_offset, current_goal_detail,
                   height, fetched, flow, error>>
    /\ UNCHANGED term

\* key == curses.KEY_DOWN and self.selected_index < len(self.goals) - 1
ListDown ==
    /\ selected_index' = selected_index + 1
    /\ offset' = IF selected_index + 1 >= offset + height - 4
                 THEN (selected_index + 1) - (height - 5)
                 ELSE offset
    /\ UNCHANGED <<pc, goals, view_mode, detail_offset, current_goal_detail,
                   height, fetched, flow, error>>
    /\ UNCHANGED term

\* No branch of the dispatch matches.
NoOp ==
    UNCHANGED vars

\* The dispatch without its test of self.goals.
HasGoals_Unchecked == TRUE

\* Truth value of self.goals in the conditions of the dispatch.
HasGoals == goals # <<>>

\* self.selected_index > 0
CanMoveUp == selected_index > 0

\* Off by one: Down is accepted on the last row.
CanMoveDown_OffByOne == selected_index < Len(goals)

\* self.selected_index < len(self.goals) - 1
CanMoveDown == selected_index < Len(goals) - 1

\* One iteration of the loop in list view: getch returned key.
ListKey(key) ==
    /\ pc = "loop"
    /\ view_mode = "list"
    /\ IF key = OrdQ THEN Quit
       ELSE IF key = OrdW THEN open_in_browser
       ELSE IF key = OrdR THEN Refresh
       ELSE IF key = OrdC /\ HasGoals THEN ListCreate
       ELSE IF key = OrdI /\ HasGoals THEN ListShowDetail
       ELSE IF key = KEY_UP /\ CanMoveUp THEN ListUp
       ELSE IF key = KEY_DOWN /\ CanMoveDown THEN ListDown
       ELSE NoOp
    /\ UNCHANGED env

(***************************************************************************)
(* The branches of the detail view's key dispatch.                         *)
(***************************************************************************)

\* key == ord('b'): self.view_mode = "list"
DetailBack ==
    /\ view_mode' = "list"
    /\ UNCHANGED <<pc, goals, selected_index, offset, detail_offset,
                   current_goal_detail, height, fetched, flow, error>>
    /\ UNCHANGED term

\* key == ord('c'): create_datapoint(stdscr, self.current_goal_detail)
DetailCreate ==
    /\ OpenValuePrompt(current_goal_detail)
    /\ UNCHANGED ui

\* key == curses.KEY_UP and self.detail_offset > 0
DetailUp ==
    /\ detail_offset' = detail_offset - 1
    /\ UNCHANGED <<pc, goals, selected_index, offset, view_mode,
                   current_goal_detail, height, fetched, flow, error>>
    /\ UNCHANGED term

\* key == curses.KEY_DOWN: self.detail_offset += 1
DetailDown(max) ==
    /\ detail_offset < max
    /\ detail_offset' = detail_offset + 1
    /\ UNCHANGED <<pc, goals, selected_index, offset, view_mode,
                   current_goal_detail, height, fetched, flow, error>>
    /\ UNCHANGED term

\* The Up branch taken at every offset.
CanScrollUp_Always == TRUE

\* self.detail_offset > 0
CanScrollUp == detail_offset > 0

\* One iteration of the loop in detail view: getch returned key; max caps
\* the scroll offset the model follows.
DetailKeyUpTo(key, max) ==
    /\ pc = "loop"
    /\ view_mode # "list"
    /\ IF key = OrdB THEN DetailBack
       ELSE IF key = OrdW THEN open_in_browser
       ELSE IF key = OrdC THEN DetailCreate
       ELSE IF key = KEY_UP /\ CanScrollUp THEN DetailUp
       ELSE IF key = KEY_DOWN THEN DetailDown(max)
       ELSE NoOp
    /\ UNCHANGED env

DetailKey(key) == DetailKeyUpTo(key, MaxDetailOffset)

\* The terminal is resized while the loop waits: getch returns KEY_RESIZE,
\* which neither view binds, and the next iteration reads the new height.
Resize ==
    /\ pc = "loop"
    /\ \E h \in Heights : h # height /\ height' = h
    /\ UNCHANGED <<pc, goals, selected_index, offset, view_mode, detail_offset,
                   current_goal_detail, fetched, flow, error, env, term>>

\* Keys the user can press in the run loop.
LoopKeys == {OrdQ, OrdW, OrdR, OrdC, OrdI, OrdB, KEY_UP, KEY_DOWN} \cup OtherKeys


(***************************************************************************)
(* float(value_str) as a number: numerator over a power of ten, reduced.   *)
(***************************************************************************)
RECURSIVE DigitsValue(_, _)
DigitsValue(s, acc) ==
    IF s = <<>> THEN acc
    ELSE IF IsAsciiDigit(s[1]) THEN DigitsValue(Tail(s), acc * 10 + (s[1] - 48))
    ELSE DigitsValue(Tail(s), acc)

RECURSIVE FractionDigits(_)
FractionDigits(s) ==
    IF s = <<>> THEN 0
    ELSE IF s[1] = OrdDot THEN CountDigits(Tail(s))
    ELSE FractionDigits(Tail(s))

RECURSIVE Pow10(_)
Pow10(n) == IF n = 0 THEN 1 ELSE 10 * Pow10(n - 1)

RECURSIVE Reduce(_, _)
Reduce(num, den) ==
    IF den > 1 /\ num % 10 = 0 THEN Reduce(num \div 10, den \div 10)
    ELSE [num |-> num, den |-> den]

FloatValue(s) == Reduce(DigitsValue(s, 0), Pow10(FractionDigits(s)))

(***************************************************************************)
(* InputWindow.get_input, as called by create_datapoint: first the numeric *)
(* value prompt (pc = "value"), then the comment prompt (pc = "comment").  *)
(***************************************************************************)

\* The numeric argument of the get_input call in progress.
numeric == pc = "value"

\* create_datapoint after a prompt returned (False, ""): return False; the
\* caller's condition is false and the loop goes on.
Cancelled ==
    /\ pc' = "loop"
    /\ success' = FALSE
    /\ result' = "False"
    /\ input_str' = <<>>
    /\ cur_x' = StartX
    /\ value_str' = <<>>
    /\ goal' = NoGoal
    /\ UNCHANGED <<request, creates, error, ui>>
    /\ UNCHANGED term

\* create_datapoint after the value prompt returned (True, input_str): the
\* comment prompt opens with a fresh buffer.
ValueSubmitted ==
    /\ pc' = "comment"
    /\ success' = TRUE
    /\ value_str' = input_str
    /\ input_str' = <<>>
    /\ cur_x' = StartX
    /\ UNCHANGED <<goal, request, creates, result, error, ui>>
    /\ echo' = TRUE
    /\ cursor' = 1

\* The comment handed over as typed, also when it is empty.
CommentSubmitted_KeepEmpty ==
    /\ success' = TRUE
    /\ pc' = "creating"
    /\ request' = << [goal_slug |-> goal,
                      value |-> FloatValue(value_str),
                      comment |-> <<input_str>>] >>
    /\ creates' = creates + 1
    /\ input_str' = <<>>
    /\ cur_x' = StartX
    /\ value_str' = <<>>
    /\ UNCHANGED <<goal, result, error, ui>>
    /\ UNCHANGED term

\* create_datapoint after the comment prompt returned (True, input_str): the
\* try block up to the blocking call of api.create_datapoint; an exception
\* before the call goes to the error window.
CommentSubmitted ==
    /\ success' = TRUE
    /\ IF FloatParses(value_str) /\ goal # NoGoal
       THEN /\ pc' = "creating"
            /\ request' = << [goal_slug |-> goal,
                              value |-> FloatValue(value_str),
                              comment |-> IF input_str # <<>>
                                          THEN <<input_str>> ELSE <<>>] >>
            /\ creates' = creates + 1
       ELSE /\ pc' = "error_win"
            /\ UNCHANGED <<request, creates>>
    /\ input_str' = <<>>
    /\ cur_x' = StartX
    /\ value_str' = <<>>
    /\ UNCHANGED <<goal, result, error, ui>>
    /\ UNCHANGED term

\* char == 10 on a numeric buffer float() rejects: the message is shown and
\* the next key is awaited.
InvalidNumber ==
    /\ pc' = "value_invalid"
    /\ UNCHANGED <<input_str, cur_x, value_str, success, goal, request,
                   creates, result, error, ui>>
    /\ UNCHANGED term

\* Enter accepted without the float() test.
Enter_Unvalidated ==
    IF numeric THEN ValueSubmitted ELSE CommentSubmitted

\* char == 10
Enter ==
    IF numeric
    THEN IF FloatParses(input_str) THEN ValueSubmitted ELSE InvalidNumber
    ELSE CommentSubmitted

\* Backspace without `if input_str:`: the cursor column moves left also on
\* an empty buffer.
Backspace_NoEmptyTest ==
    /\ input_str' = SubSeq(input_str, 1, Len(input_str) - 1)
    /\ cur_x' = cur_x - 1
    /\ UNCHANGED <<pc, value_str, success, goal, request, creates, result,
                   error, ui>>
    /\ UNCHANGED term

\* char == curses.KEY_BACKSPACE or char == 127
Backspace ==
    /\ IF input_str # <<>>
       THEN /\ input_str' = SubSeq(input_str, 1, Len(input_str) - 1)
            /\ cur_x' = cur_x - 1
       ELSE UNCHANGED <<input_str, cur_x>>
    /\ UNCHANGED <<pc, value_str, success, goal, request, creates, result,
                   error, ui>>
    /\ UNCHANGED term

\* 32 <= char <= 126: the character is appended.
AppendChar(char) ==
    /\ Len(input_str) < MaxLen
    /\ input_str' = input_str \o <<char>>
    /\ cur_x' = cur_x + 1
    /\ UNCHANGED <<pc, value_str, success, goal, request, creates, result,
                   error, ui>>
    /\ UNCHANGED term

\* The ignored key reaches the enclosing view, which moves the selection.
Continue_Leak ==
    /\ selected_index' = IF selected_index > 0 THEN selected_index - 1
                         ELSE selected_index + 1
    /\ UNCHANGED <<pc, flow, error, goals, offset, view_mode, detail_offset,
                   current_goal_detail, height, fetched>>
    /\ UNCHANGED term

\* The key is ignored and the prompt goes on.
Continue ==
    UNCHANGED <<pc, flow, error, ui, term>>

\* One iteration of the loop of get_input: getch returned char.
GetInputKey(char) ==
    /\ pc \in {"value", "comment"}
    /\ IF char = ESCAPE THEN Cancelled
       ELSE IF char = ENTER THEN Enter
       ELSE IF char = KEY_BACKSPACE \/ char = DEL THEN Backspace
       ELSE IF numeric /\ ~(IsDigit(char) \/ char = OrdDot) THEN Continue
       ELSE IF IsPrintable(char) THEN AppendChar(char)
       ELSE Continue
    /\ UNCHANGED env

\* The key after "Invalid number!" also empties the buffer.
InvalidAck_ClearsBuffer ==
    /\ pc = "value_invalid"
    /\ pc' = "value"
    /\ input_str' = <<>>
    /\ cur_x' = StartX
    /\ UNCHANGED <<ui, value_str, success, goal, request, creates, result,
                   error, env, term>>

\* self.window.getch() after "Invalid number!": any key restores the prompt.
InvalidAck ==
    /\ pc = "value_invalid"
    /\ pc' = "value"
    /\ UNCHANGED <<ui, flow, error, env, term>>

\* api.create_datapoint returned: create_datapoint returns True and the
\* caller refetches, the collection in list view, the detail in detail view.
CreateOk ==
    /\ pc = "creating"
    /\ result' = "True"
    /\ request' = <<>>
    /\ IF view_mode = "list"
       THEN fetch_goals /\ UNCHANGED current_goal_detail
       ELSE fetch_goal_detail(current_goal_detail) /\ UNCHANGED <<goals, fetched>>
    /\ UNCHANGED <<selected_index, offset, view_mode, detail_offset, height>>
    /\ goal' = NoGoal
    /\ UNCHANGED <<input_str, cur_x, value_str, success, creates, env, term>>

\* api.create_datapoint raised: the error window is shown.
CreateFail ==
    /\ pc = "creating"
    /\ pc' = "error_win"
    /\ request' = <<>>
    /\ UNCHANGED <<ui, input_str, cur_x, value_str, success, goal, creates,
                   result, error, env, term>>

\* The error handler returning True: the caller refetches.
ErrorAck_ReturnsTrue ==
    /\ pc = "error_win"
    /\ result' = "True"
    /\ goal' = NoGoal
    /\ IF view_mode = "list"
       THEN fetch_goals /\ UNCHANGED current_goal_detail
       ELSE fetch_goal_detail(current_goal_detail) /\ UNCHANGED <<goals, fetched>>
    /\ UNCHANGED <<selected_index, offset, view_mode, detail_offset, height>>
    /\ UNCHANGED <<input_str, cur_x, value_str, success, request, creates, env, term>>

\* error_win.window.getch(): any key dismisses the error; create_datapoint
\* returns False.
ErrorAck ==
    /\ pc = "error_win"
    /\ pc' = "loop"
    /\ result' = "False"
    /\ goal' = NoGoal
    /\ UNCHANGED <<ui, input_str, cur_x, value_str, success, request,
                   creates, error, env, term>>

Next ==
    \/ main
    \/ RunStart
    \/ \E key \in LoopKeys : ListKey(key)
    \/ \E key \in LoopKeys : DetailKey(key)
    \/ Resize
    \/ \E char \in PromptKeys : GetInputKey(char)
    \/ InvalidAck
    \/ CreateOk
    \/ CreateFail
    \/ ErrorAck

Spec == Init /\ [][Next]_vars

(***************************************************************************)
(* The display helpers of draw_goals_list and draw_goal_detail.  An        *)
(* Optional value is a sequence of no element (None) or one element.       *)
(***************************************************************************)

\* Optional[bool]: None, True, False.
Flags == {<<>>, <<TRUE>>, <<FALSE>>}

\* The truth value Python gives an Optional[bool] in `if`.
Truthy(flag) == flag = <<TRUE>>

\* The flags tested in another order: won before lost.
get_goal_status_WonFirst(lost, won, frozen) ==
    IF Truthy(won) THEN "WON"
    ELSE IF Truthy(lost) THEN "LOST"
    ELSE IF Truthy(frozen) THEN "FROZEN"
    ELSE "ACTIVE"

get_goal_status(lost, won, frozen) ==
    IF Truthy(lost) THEN "LOST"
    ELSE IF Truthy(won) THEN "WON"
    ELSE IF Truthy(frozen) THEN "FROZEN"
    ELSE "ACTIVE"

\* Time is counted in ticks of half a second from the instant at which the
\* local clock of the zone is shifted; losedate is in whole seconds and
\* datetime.now() falls between two seconds or on one.
TicksPerSecond == 2
SecondsPerHour == 3600
SecondsPerDay == 86400
TicksPerDay == SecondsPerDay * TicksPerSecond

\* The local time zones of the process: one without a clock shift, one whose
\* clock is set back one hour at instant 0, one whose clock is set forward.
Zones == {"UTC", "fall_back", "spring_forward"}

\* Seconds the local clock of the zone is ahead of its standard time at
\* instant ts (in seconds).
DstOffset(zone, ts) ==
    IF zone = "fall_back" THEN (IF ts < 0 THEN SecondsPerHour ELSE 0)
    ELSE IF zone = "spring_forward" THEN (IF ts < 0 THEN 0 ELSE SecondsPerHour)
    ELSE 0

\* datetime.fromtimestamp(ts): the naive local wall-clock time, in ticks;
\* the standard offset of the zone is the same in every value and is left
\* out.
fromtimestamp(zone, ts) == (ts + DstOffset(zone, ts)) * TicksPerSecond

\* datetime.now() at instant `now` (in ticks): naive local wall-clock time.
datetime_now(zone, now) ==
    now + DstOffset(zone, now \div TicksPerSecond) * TicksPerSecond

\* The f-string results as a template and the numbers filled in.
Formatted(fmt, args) == [fmt |-> fmt, args |-> args]

format_time_left(zone, now, losedate) ==
    IF losedate = <<>> THEN Formatted("N/A", <<>>)
    ELSE LET lose_time == fromtimestamp(zone, losedate[1])
             time_left == lose_time - datetime_now(zone, now)
             \* timedelta.days and timedelta.seconds of a normalized timedelta
             days == time_left \div TicksPerDay
             seconds == (time_left % TicksPerDay) \div TicksPerSecond
             hours == seconds \div SecondsPerHour
             minutes == (seconds % SecondsPerHour) \div 60
         IN  IF time_left < 0 THEN Formatted("EXPIRED", <<>>)
             ELSE IF days > 0 THEN Formatted("{days}d {hours}h", <<days, hours>>)
             ELSE IF hours > 0
                  THEN Formatted("{hours}h {minutes}m", <<hours, minutes>>)
             ELSE Formatted("{minutes}m", <<minutes>>)

Space == 32
Ellipsis == <<OrdDot, OrdDot, OrdDot>>

RECURSIVE Spaces(_)
Spaces(n) == IF n <= 0 THEN <<>> ELSE <<Space>> \o Spaces(n - 1)

\* str.ljust(width): padded on the right, never shortened.
ljust(s, width) == s \o Spaces(width - Len(s))

\* s[:n], with Python's meaning of a negative n.
SliceTo(s, n) ==
    SubSeq(s, 1, IF n < 0 THEN Max(0, Len(s) + n) ELSE Min(n, Len(s)))

truncate_text(text, width) ==
    IF text = <<>> \/ text = <<<<>>>> THEN ljust(<<>>, width)
    ELSE IF Len(text[1]) <= width THEN ljust(text[1], width)
    ELSE ljust(SliceTo(text[1], width - 3) \o Ellipsis, width)

\* Instants of datetime.now(), in ticks: a day and half an hour before the
\* clock shift, on a second and between two, and after it.
NowTicks == {-SecondsPerDay * TicksPerSecond, -1800 * TicksPerSecond,
             -1800 * TicksPerSecond + 1, 10 * TicksPerSecond}

\* Seconds from the second of now to the deadline.
Deltas == {-SecondsPerDay, -1, 0, 1, 59, 60, 120, 3599, 3600, 5400, 86399,
           86400, 90000, 172800}

OrdA == 97

\* The texts of at most MaxTextLen characters over two letters.
Texts == UNION { [1..n -> {OrdA, OrdB}] : n \in 0..MaxTextLen }

Widths == 0..MaxWidth

\* self.get_goal_status(goal) for a goal with any flags.
CallStatus ==
    /\ \E lost \in Flags, won \in Flags, frozen \in Flags :
           call' = [NoCall EXCEPT !.fn = "get_goal_status",
                                  !.flags = <<lost, won, frozen>>,
                                  !.status = get_goal_status(lost, won, frozen)]
    /\ UNCHANGED <<pc, ui, flow, error, api_key, username, printed, term>>

\* self.format_time_left(goal.losedate) at any instant in any zone.
CallTimeLeft ==
    /\ \E zone \in Zones, now \in NowTicks :
       \E losedate \in {<<>>} \cup
                       { <<(now \div TicksPerSecond) + d>> : d \in Deltas } :
           call' = [NoCall EXCEPT !.fn = "format_time_left",
                                  !.zone = zone, !.now = now,
                                  !.losedate = losedate,
                                  !.time_left =
                                      format_time_left(zone, now, losedate)]
    /\ UNCHANGED <<pc, ui, flow, error, api_key, username, printed, term>>

\* self.truncate_text(text, width) for any text, absent or not, and width.
CallTruncate ==
    /\ \E text \in {<<>>} \cup { <<t>> : t \in Texts }, width \in Widths :
           call' = [NoCall EXCEPT !.fn = "truncate_text",
                                  !.text = text, !.width = width,
                                  !.cell = truncate_text(text, width)]
    /\ UNCHANGED <<pc, ui, flow, error, api_key, username, printed, term>>

NextPure == CallStatus \/ CallTimeLeft \/ CallTruncate

\* The helpers read nothing of the program's state: one initial state of
\* Init is enough.
InitPure == Init /\ api_key /\ username /\ height = MinHeight

SpecPure == InitPure /\ [][NextPure]_vars

(***************************************************************************)
(* The datapoint workflow opened from the list view, typed with keys from  *)
(* both sides of every test of get_input.                                  *)
(***************************************************************************)

\* PromptKeys with a blank, a sign, the ends of the printable range, their
\* neighbours outside it and a digit that is not ASCII.
TypedKeys == PromptKeys \cup {Space, OrdMinus, OrdTilde, UnitSeparator,
                              PaddingChar, SuperscriptTwo}

NextPrompt ==
    \/ main
    \/ RunStart
    \/ ListKey(OrdC)
    \/ \E char \in TypedKeys : GetInputKey(char)
    \/ InvalidAck
    \/ CreateOk
    \/ CreateFail
    \/ ErrorAck

SpecPrompt == Init /\ [][NextPrompt]_vars

(***************************************************************************)
(* The loop without the datapoint workflow, followed far enough down the   *)
(* detail pane to pass its last field.                                     *)
(***************************************************************************)

\* The keys of LoopKeys that open no prompt.
ScrollKeys == LoopKeys \ {OrdC}

DetailScrollKey(key) == DetailKeyUpTo(key, MaxDetailScroll)

NextDetail ==
    \/ main
    \/ RunStart
    \/ \E key \in ScrollKeys : ListKey(key)
    \/ \E key \in ScrollKeys : DetailScrollKey(key)
    \/ Resize

SpecDetail == Init /\ [][NextDetail]_vars

TypeOK ==
    /\ pc \in {"main", "exited", "start", "loop", "value", "value_invalid", "comment",
               "creating", "error_win", "done", "crashed"}
    /\ goals \in Collections
    /\ selected_index \in 0..MaxGoals
    /\ view_mode \in {"list", "detail"}
    /\ detail_offset \in 0..MaxDetailOffset
    /\ current_goal_detail \in Slugs \cup {NoGoal}
    /\ height \in Heights
    /\ Len(input_str) <= MaxLen
    /\ cur_x = StartX + Len(input_str)
    /\ success \in BOOLEAN
    /\ creates \in 0..1
    /\ result \in {None, "True", "False"}
    /\ error \in {None, "FetchError", "IndexError"}
    /\ fetched \in BOOLEAN
    /\ echo \in BOOLEAN
    /\ cursor \in {0, 1}


(***************************************************************************)
(* Properties.                                                             *)
(***************************************************************************)


PromptPcs == {"value", "value_invalid", "comment", "error_win"}

\* C1: whenever the goal collection is non-empty, the selection is an index
\* of it: 0 <= selected_index < len(goals), also after a refresh returned a
\* shorter collection.
C1_SelectionInRange ==
    goals # <<>> => (0 <= selected_index /\ selected_index < Len(goals))

\* C2: the scroll offset of the list satisfies 0 <= offset <= selected_index
\* in every reachable state, for every terminal height.
C2_OffsetAtMostSelection ==
    0 <= offset /\ offset <= selected_index

\* C3: after any Up or Down in list view the selected row lies inside the
\* visible window [offset, offset + viewport_height), viewport_height being
\* the terminal height of this iteration minus 4.
C3_SelectedRowVisible ==
    [][(ListKey(KEY_UP) \/ ListKey(KEY_DOWN)) =>
           (offset' <= selected_index' /\ selected_index' < offset' + (height - 4))]_vars

\* C4: from a selection inside the collection, Up moves the selection one
\* row towards 0 and is a no-op at 0, Down moves it one row towards
\* len(goals)-1 and is a no-op there; no wraparound.
C4_NavigationClamps ==
    [][(selected_index < Len(goals)) =>
          /\ ListKey(KEY_UP) =>
                /\ selected_index' = Max(selected_index - 1, 0)
                /\ selected_index = 0 => offset' = offset
          /\ ListKey(KEY_DOWN) =>
                /\ selected_index' = Min(selected_index + 1, Len(goals) - 1)
                /\ selected_index = Len(goals) - 1 => offset' = offset]_vars

\* C4 witness: Down has brought the selection to the last of three rows.
C4_Witness ==
    /\ pc = "loop"
    /\ view_mode = "list"
    /\ Len(goals) = 3
    /\ selected_index = Len(goals) - 1

\* C5: the view is always list or detail; before the loop the view is list,
\* and the loop runs only once the initial fetch has returned a collection.
C5_OneViewAfterFetch ==
    /\ view_mode \in {"list", "detail"}
    /\ pc \in {"main", "start"} => view_mode = "list"
    /\ pc \notin {"main", "exited", "start", "crashed"} => fetched

\* C5 witness: the loop is running in detail view.
C5_Witness ==
    /\ pc = "loop"
    /\ view_mode = "detail"
    /\ fetched

\* C6: in list view with an empty collection, i and c change nothing: the
\* view, the selection, both offsets and the detail stay, no collaborator is
\* called, no prompt opens and the loop goes on.
C6_EmptyCollectionNoOp ==
    [][(pc = "loop" /\ view_mode = "list" /\ goals = <<>>
            /\ (ListKey(OrdI) \/ ListKey(OrdC))) =>
           /\ pc' = "loop"
           /\ UNCHANGED <<view_mode, selected_index, offset, detail_offset,
                          current_goal_detail, goals, request, creates,
                          error>>]_vars

\* C6 witness: the list view shows an empty collection while the selection
\* still points at a row of the collection shown before.
C6_Witness ==
    /\ pc = "loop"
    /\ view_mode = "list"
    /\ goals = <<>>
    /\ selected_index > 0

\* C7: Escape in either prompt returns False without a call of
\* api.create_datapoint; submitting both prompts makes exactly one call, and
\* an empty comment is passed as no comment; no call is ever repeated.
C7_CreateCalledOnce ==
    [][/\ (pc \in {"value", "comment"} /\ GetInputKey(ESCAPE)) =>
              (creates' = 0 /\ request' = <<>> /\ result' = "False"
                  /\ pc' = "loop")
       /\ (pc = "comment" /\ GetInputKey(ENTER)) =>
              /\ creates' = 1
              /\ Len(request') = 1
              /\ request'[1].goal_slug = goal
              /\ request'[1].comment =
                     (IF input_str = <<>> THEN <<>> ELSE <<input_str>>)
       /\ (request' # request) => (pc = "comment" \/ pc = "creating")
       /\ creates' <= 1]_vars

\* C7 witness: both prompts were submitted, the comment empty, and the one
\* call is in flight.
C7_Witness ==
    /\ pc = "creating"
    /\ creates = 1
    /\ request[1].comment = <<>>

\* C8: when the numeric prompt has returned submitted = true, the returned
\* buffer is accepted by float().
C8_SubmittedValueParses ==
    (pc = "comment" /\ success) => FloatParses(value_str)

\* C8 witness: the numeric prompt returned a value with a decimal point.
C8_Witness ==
    /\ pc = "comment"
    /\ success
    /\ CountDots(value_str) = 1

\* C9: every step taken while a prompt or the error window is open leaves
\* the view, the selection, both offsets and the collection unchanged.
C9_PromptOwnsInput ==
    [][(pc \in PromptPcs) =>
           UNCHANGED <<view_mode, selected_index, offset, detail_offset,
                       goals>>]_vars

\* C9 witness: a prompt is open over a list scrolled away from the top.
C9_Witness ==
    /\ pc \in {"value", "comment"}
    /\ Len(input_str) = MaxLen
    /\ selected_index > 0

\* C10: a failing fetch collaborator never ends the render loop.
C10_FetchFailureSurvived ==
    ~(pc = "crashed" /\ error = "FetchError")


RunPcs == {"start", "loop", "value", "value_invalid", "comment", "creating",
           "error_win"}

C12_NoUiWithoutStartupInputs ==
    (~api_key \/ ~username) =>
        /\ pc \in {"main", "exited"}
        /\ pc = "exited" => Len(printed) = 1

\* C13: in list view with a non-empty collection, c opens the datapoint
\* workflow for the slug of goals[selected_index]; the view stays list in
\* every outcome and the collection is refetched only by the step in which
\* create_datapoint returned True.
C13_ListCreateRefetchesOnConfirmation ==
    [][/\ (pc = "loop" /\ view_mode = "list" /\ goals # <<>> /\ ListKey(OrdC)) =>
              /\ selected_index < Len(goals)
              /\ pc' = "value"
              /\ goal' = goals[selected_index + 1]
       /\ (view_mode = "list" /\ pc \in {"value", "value_invalid", "comment",
                                         "creating", "error_win"}) =>
              /\ view_mode' = "list"
              /\ (goals' # goals \/ fetched' # fetched) => CreateOk
              /\ CreateOk => (fetch_goals /\ result' = "True")]_vars

\* C14: in list view with a non-empty collection, i fetches the detail of
\* the slug of goals[selected_index], resets the detail offset to 0 and
\* switches to detail view; the loop never runs in detail view without the
\* detail of that slug loaded.
C14_ShowDetailLoadsSelected ==
    [][/\ (pc = "loop" /\ view_mode = "list" /\ goals # <<>> /\ ListKey(OrdI)) =>
              /\ selected_index < Len(goals)
              /\ view_mode' = "detail"
              /\ detail_offset' = 0
              /\ \/ pc' = "loop" /\ current_goal_detail' = goals[selected_index + 1]
                 \/ pc' = "crashed" /\ error' = "FetchError"
       /\ (pc' = "loop" /\ view_mode' = "detail") =>
              current_goal_detail' # NoGoal]_vars

\* C15: run() ends only by q in list view, and a key the active view does
\* not bind (q, r, i or another key in detail view; b or another key in list
\* view) changes nothing and calls no collaborator.
C15_EndsOnlyByQuit ==
    [][/\ (pc \in RunPcs /\ pc' \notin RunPcs) =>
              (view_mode = "list" /\ ListKey(OrdQ) /\ pc' = "done")
       /\ ((\E key \in {OrdQ, OrdR, OrdI} \cup OtherKeys : DetailKey(key))
              \/ (\E key \in {OrdB} \cup OtherKeys : ListKey(key))) =>
              UNCHANGED <<pc, ui, flow, error>>]_vars

\* C20: each Up or Down in list view leaves the offset alone when the new
\* selected row is inside [offset, offset + viewport_height), and otherwise
\* sets it to selected_index (Up) or selected_index - viewport_height + 1
\* (Down).
C20_MinimalScroll ==
    [][(ListKey(KEY_UP) \/ ListKey(KEY_DOWN)) =>
           offset' = IF /\ offset <= selected_index'
                        /\ selected_index' < offset + (height - 4)
                     THEN offset
                     ELSE IF selected_index' < selected_index
                          THEN selected_index'
                          ELSE selected_index' - (height - 4) + 1]_vars

\* C16 as stated: the detail offset stays within [0, max(0, field_count - 1)]
\* after any sequence of Up and Down in detail view.
C16_DetailOffsetClamped ==
    detail_offset \in 0..Max(0, FieldCount - 1)

\* C16: the detail offset never goes below 0; Up at offset 0 is a no-op and
\* above 0 subtracts one; Down adds one at every offset, with no upper
\* clamp.
C16_DetailScrollLowerClamp ==
    /\ [](detail_offset >= 0)
    /\ [][(DetailScrollKey(KEY_UP) =>
               /\ detail_offset' = Max(0, detail_offset - 1)
               /\ UNCHANGED <<pc, view_mode, current_goal_detail>>)
          /\ (DetailScrollKey(KEY_DOWN) =>
               /\ detail_offset' = detail_offset + 1
               /\ UNCHANGED <<pc, view_mode, current_goal_detail>>)]_vars

\* C16 witness: the loop shows a detail scrolled past its last field.
C16_Witness ==
    /\ pc = "loop"
    /\ view_mode = "detail"
    /\ current_goal_detail # NoGoal
    /\ detail_offset > FieldCount - 1

\* The status the priority lost > won > frozen > active gives, an absent
\* flag counting as false.
PriorityStatus(flags) ==
    IF flags[1] = <<TRUE>> THEN "LOST"
    ELSE IF flags[2] = <<TRUE>> THEN "WON"
    ELSE IF flags[3] = <<TRUE>> THEN "FROZEN"
    ELSE "ACTIVE"

\* C17: the status is a function of the three flags alone: LOST exactly when
\* lost is set; WON exactly when won is set and lost is not; FROZEN exactly
\* when frozen is set and neither lost nor won is; ACTIVE exactly when none
\* is set; an absent flag counts as false.
C17_StatusPriority ==
    call.fn = "get_goal_status" =>
        LET lost == call.flags[1] = <<TRUE>>
            won == call.flags[2] = <<TRUE>>
            frozen == call.flags[3] = <<TRUE>>
        IN  /\ (call.status = "LOST") <=> lost
            /\ (call.status = "WON") <=> (won /\ ~lost)
            /\ (call.status = "FROZEN") <=> (frozen /\ ~won /\ ~lost)
            /\ (call.status = "ACTIVE") <=> (~frozen /\ ~won /\ ~lost)
            /\ call.status = PriorityStatus(call.flags)

\* C17 witness: a goal both lost and won, with frozen absent, has been given
\* the status LOST.
C17_Witness ==
    /\ call.fn = "get_goal_status"
    /\ call.flags = <<<<TRUE>>, <<TRUE>>, <<>>>>
    /\ call.status = "LOST"

\* The time left the claim gives d whole seconds.
ClaimedTimeLeft(d) ==
    LET days == d \div 86400
        hours == (d % 86400) \div 3600
        minutes == (d % 3600) \div 60
    IN  IF d < 0 THEN Formatted("EXPIRED", <<>>)
        ELSE IF days > 0 THEN Formatted("{days}d {hours}h", <<days, hours>>)
        ELSE IF hours > 0 THEN Formatted("{hours}h {minutes}m", <<hours, minutes>>)
        ELSE Formatted("{minutes}m", <<minutes>>)

\* C18: for d = deadline - now in whole seconds, the time left is EXPIRED
\* when d < 0, else "{days}d {hours}h" when days > 0, else
\* "{hours}h {minutes}m" when hours > 0, else "{minutes}m", with
\* days = d div 86400, hours = (d mod 86400) div 3600 and
\* minutes = (d mod 3600) div 60.
C18_TimeLeftOfDifference ==
    (call.fn = "format_time_left" /\ call.losedate # <<>>) =>
        call.time_left =
            ClaimedTimeLeft((call.losedate[1] * TicksPerSecond - call.now)
                                \div TicksPerSecond)

\* C19: the cell has exactly width characters; a text longer than width
\* becomes its first width - 3 characters followed by "...", and a text of
\* at most width characters, or an absent text, is kept and padded on the
\* right with spaces to width.
C19_CellHasWidth ==
    call.fn = "truncate_text" =>
        LET text == IF call.text = <<>> THEN <<>> ELSE call.text[1]
            width == call.width
            cell == call.cell
        IN  /\ Len(cell) = width
            /\ Len(text) > width =>
                   /\ \A i \in 1..(width - 3) : cell[i] = text[i]
                   /\ \A i \in (width - 2)..width : i >= 1 => cell[i] = OrdDot
            /\ Len(text) <= width =>
                   /\ \A i \in 1..Len(text) : cell[i] = text[i]
                   /\ \A i \in (Len(text) + 1)..width : cell[i] = Space

\* C21: Enter in the numeric prompt on a buffer float() rejects keeps the
\* prompt open with the message shown; the one key that follows is consumed
\* and editing goes on, the buffer and the cursor column as they were.  Enter
\* on a buffer float() accepts returns (True, buffer) to the value, and Enter
\* in the comment prompt returns (True, buffer) whatever the buffer.
C21_EnterValidates ==
    [][((pc = "value" /\ GetInputKey(ENTER) /\ ~FloatParses(input_str)) =>
            /\ pc' = "value_invalid"
            /\ UNCHANGED <<input_str, cur_x, value_str, success, ui>>)
       /\ ((pc = "value_invalid") =>
            /\ pc' = "value"
            /\ UNCHANGED <<input_str, cur_x, value_str, success, ui>>)
       /\ ((pc = "value" /\ GetInputKey(ENTER) /\ FloatParses(input_str)) =>
            /\ pc' = "comment"
            /\ success'
            /\ value_str' = input_str)
       /\ ((pc = "comment" /\ GetInputKey(ENTER)) =>
            /\ pc' = "creating"
            /\ success'
            /\ request'[1].comment =
                   (IF input_str = <<>> THEN <<>> ELSE <<input_str>>))]_vars

\* C21 witness: the numeric prompt shows "Invalid number!" over a buffer of
\* one point, which float() rejects.
C21_Witness ==
    /\ pc = "value_invalid"
    /\ input_str = <<OrdDot>>
    /\ cur_x = StartX + 1

\* The characters a numeric buffer may hold.
NumericChars == 48..57 \cup {OrdDot}

\* The keys get_input handles before it looks at the character.
ControlKeys == {ESCAPE, ENTER, KEY_BACKSPACE, DEL}

\* C22: the buffer of the numeric prompt, and the value it returned, hold
\* only digits and '.'; in the numeric prompt a digit or '.' is appended and
\* every other key that is not Escape, Enter or Backspace leaves buffer and
\* cursor column unchanged; in the comment prompt such a key is appended
\* exactly when it is a printable ASCII character 32..126.
C22_PromptFilter ==
    /\ []((pc \in {"value", "value_invalid"} =>
              \A i \in 1..Len(input_str) : input_str[i] \in NumericChars)
          /\ \A i \in 1..Len(value_str) : value_str[i] \in NumericChars)
    /\ [][\A char \in TypedKeys \ ControlKeys :
             /\ (pc = "value" /\ GetInputKey(char)) =>
                    /\ pc' = "value"
                    /\ IF char \in NumericChars
                       THEN input_str' = input_str \o <<char>> /\ cur_x' = cur_x + 1
                       ELSE UNCHANGED <<input_str, cur_x>>
             /\ (pc = "comment" /\ GetInputKey(char)) =>
                    /\ pc' = "comment"
                    /\ IF char \in 32..126
                       THEN input_str' = input_str \o <<char>> /\ cur_x' = cur_x + 1
                       ELSE UNCHANGED <<input_str, cur_x>>]_vars

\* C22 witness: the comment prompt holds a blank and a tilde, the ends of
\* the printable range, after the numeric prompt returned ".5".
C22_Witness ==
    /\ pc = "comment"
    /\ input_str = <<Space, OrdTilde>>
    /\ value_str = <<OrdDot, OrdFive>>

\* The buffer without its last character.
DropLast(s) == SubSeq(s, 1, Len(s) - 1)

\* C23: in either prompt Backspace (KEY_BACKSPACE or 127) on a non-empty
\* buffer removes the last character and moves the cursor column back by
\* one, and on an empty buffer changes neither (the column stays at its
\* start); Escape returns (False, "") from any buffer, so the workflow ends
\* without a call; every call of get_input begins with an empty buffer and
\* the cursor at its start column.
C23_BackspaceEscapeFresh ==
    [][/\ (\E char \in {KEY_BACKSPACE, DEL} : GetInputKey(char)) =>
              /\ pc' = pc
              /\ IF input_str = <<>>
                 THEN input_str' = <<>> /\ cur_x' = StartX /\ cur_x = StartX
                 ELSE input_str' = DropLast(input_str) /\ cur_x' = cur_x - 1
              /\ UNCHANGED <<value_str, success, ui>>
       /\ GetInputKey(ESCAPE) =>
              /\ pc' = "loop"
              /\ ~success'
              /\ result' = "False"
              /\ input_str' = <<>>
              /\ creates' = 0 /\ request' = <<>>
       /\ ((pc = "loop" /\ pc' = "value") \/ (pc = "value" /\ pc' = "comment")) =>
              /\ input_str' = <<>>
              /\ cur_x' = StartX]_vars

\* C23 witness: the comment prompt, the second call of get_input in the
\* workflow, holds an edited buffer with the cursor behind it.
C23_Witness ==
    /\ pc = "comment"
    /\ value_str # <<>>
    /\ Len(input_str) = 1
    /\ cur_x = StartX + 1

\* C24: in detail view c opens the datapoint workflow for the slug of the
\* detail on display; whatever the outcome the view stays detail and the
\* loop goes on, the collection is not refetched, and the detail of that
\* same slug is refetched by the step in which create_datapoint returned
\* True and by no other.
C24_DetailCreateRefetchesDetail ==
    [][/\ (view_mode = "detail" /\ DetailKey(OrdC)) =>
              /\ current_goal_detail # NoGoal
              /\ pc' = "value"
              /\ goal' = current_goal_detail
       /\ (view_mode = "detail" /\ pc \in {"value", "value_invalid", "comment",
                                           "creating", "error_win"}) =>
              /\ view_mode' = "detail"
              /\ pc' \in RunPcs
              /\ UNCHANGED <<goals, fetched, current_goal_detail>>
              /\ CreateOk <=> (result' = "True" /\ pc = "creating")]_vars

\* C25: b in detail view switches to list view and discards the loaded
\* detail, so that no detail is held while the view is list; in list view
\* only i loads a detail.
C25_BackDiscardsDetail ==
    /\ [][/\ DetailKey(OrdB) =>
                 /\ view_mode' = "list"
                 /\ current_goal_detail' = NoGoal
          /\ (view_mode = "list" /\ current_goal_detail' # current_goal_detail) =>
                 ListKey(OrdI)]_vars
    /\ []((view_mode = "list" /\ pc # "crashed") => current_goal_detail = NoGoal)

\* C26: while the detail view is up, the loaded detail is the detail of
\* goals[selected_index]; no step taken in detail view changes
\* selected_index, offset or the collection, and b returns to the list view
\* with the selection and the offset of the moment i was pressed.
C26_DetailIsOfSelectedGoal ==
    /\ []((view_mode = "detail" /\ pc # "crashed") =>
              /\ selected_index < Len(goals)
              /\ current_goal_detail = goals[selected_index + 1])
    /\ [][/\ (view_mode = "detail") =>
                 UNCHANGED <<selected_index, offset, goals>>
          /\ DetailKey(OrdB) =>
                 /\ view_mode' = "list"
                 /\ pc' = "loop"]_vars

\* C26 witness: the loop shows the detail of a goal that is not the first
\* of the collection.
C26_Witness ==
    /\ pc = "loop"
    /\ view_mode = "detail"
    /\ selected_index > 0
    /\ selected_index < Len(goals)
    /\ current_goal_detail = goals[selected_index + 1]

\* C27: once get_input has returned, by submit or by cancel, echo is off and
\* the cursor is hidden again, as run() had them before the prompt opened:
\* the loop, the call of the service and the error window never run with
\* echo on or the cursor visible.
C27_PromptRestoresTerminal ==
    (pc \in {"loop", "creating", "error_win"}) => (~echo /\ cursor = 0)

====
